---- MODULE Spec2Model ----
(***************************************************************************)
(* The wrapped strided-interval domain of claripy/vsa/strided_interval.py. *)
(* A strided interval is a record (bits, stride, lb, ub, reversed, uninit, *)
(* bottom); the operations are the methods of class StridedInterval,       *)
(* translated statement by statement.  A state is one call: the operands   *)
(* x and y, the operation op that was called on them with the integer      *)
(* arguments arg, and its result ret.                                      *)
(***************************************************************************)
EXTENDS Integers, Sequences, FiniteSets, TLC

VARIABLES x, y, op, arg, ret

vars == <<x, y, op, arg, ret>>

\* Width of the operands drawn by Init (all strided intervals of this width).
Bits == 3

\* How many bits the width-changing operations add at most.
MaxExtend == 2

\* The value of ret while no operation has returned.
None == [none |-> TRUE]

(***************************************************************************)
(* Integer helpers                                                         *)
(***************************************************************************)

\* v & (2 ** bits - 1) on a Python integer of either sign
mask_bits(v, bits) == v % (2 ^ bits)

highbit(k) == 2 ^ (k - 1)

max_int(k) == highbit(k + 1) - 1

min_int(k) == 0 - highbit(k)

modular_add(a, b, bits) == (a + b) % (2 ^ bits)

modular_sub(a, b, bits) == (a - b) % (2 ^ bits)

modular_mul(a, b, bits) == (a * b) % (2 ^ bits)

\* fractions.gcd of Python 2: while b: a, b = b, a % b
RECURSIVE gcd(_, _)
gcd(a, b) == IF b = 0 THEN a ELSE gcd(b, a % b)

wrapped_cardinality(a, b, bits) ==
    IF a = (b + 1) % (2 ^ bits) THEN 2 ^ bits ELSE mask_bits((b - a) + 1, bits)

lex_lte(a, b, bits) == mask_bits(a, bits) <= mask_bits(b, bits)

lex_lt(a, b, bits) == mask_bits(a, bits) < mask_bits(b, bits)

is_msb_zero(v, bits) == (mask_bits(v, bits) \div (2 ^ (bits - 1))) % 2 = 0

unsigned_to_signed(v, bits) == IF is_msb_zero(v, bits) THEN v ELSE 0 - (2 ^ bits - v)

(***************************************************************************)
(* The datum: construction and normalisation                               *)
(***************************************************************************)

is_top(si) == si.stride = 1 /\ si.lb = modular_add(si.ub, 1, si.bits)

is_bottom(si) == si.bottom

is_empty(si) == is_bottom(si)

is_integer(si) == si.lb = si.ub

normalize_top(si) ==
    IF si.lb = modular_add(si.ub, 1, si.bits) /\ si.stride = 1
    THEN [si EXCEPT !.lb = 0, !.ub = max_int(si.bits)]
    ELSE si

\* Strides are gcds, products and shifts of naturals: the stride < 0 exception
\* of normalize is never raised from the operations below.
normalize(si) ==
    LET s1 == IF si.bits = 8 /\ si.reversed THEN [si EXCEPT !.reversed = FALSE] ELSE si
        s2 == IF s1.lb = s1.ub THEN [s1 EXCEPT !.stride = 0] ELSE s1
        s3 == IF s2.lb < 0 THEN [s2 EXCEPT !.lb = mask_bits(s2.lb, s2.bits)] ELSE s2
    IN  IF is_empty(s1) THEN s1 ELSE normalize_top(s3)

\* StridedInterval.__init__ with every argument given
StridedIntervalU(bits, stride, lower_bound, upper_bound, uninitialized, bottom) ==
    normalize([bits |-> bits, stride |-> stride,
               lb |-> mask_bits(lower_bound, bits), ub |-> mask_bits(upper_bound, bits),
               reversed |-> FALSE, uninit |-> uninitialized, bottom |-> bottom])

\* StridedInterval(bits=, stride=, lower_bound=, upper_bound=)
StridedInterval(bits, stride, lower_bound, upper_bound) ==
    StridedIntervalU(bits, stride, lower_bound, upper_bound, FALSE, FALSE)

copy(si) ==
    [StridedIntervalU(si.bits, si.stride, si.lb, si.ub, si.uninit, si.bottom)
        EXCEPT !.reversed = si.reversed]

top(bits) == StridedIntervalU(bits, 1, 0, max_int(bits), FALSE, FALSE)

topU(bits, uninitialized) == StridedIntervalU(bits, 1, 0, max_int(bits), uninitialized, FALSE)

empty(bits) == StridedIntervalU(bits, 1, 0, 2 ^ bits - 1, FALSE, TRUE)

cardinality(si) ==
    IF is_bottom(si) THEN 0
    ELSE IF is_integer(si) THEN 1
    ELSE (modular_sub(si.ub, si.lb, si.bits) + si.stride) \div si.stride

(***************************************************************************)
(* Membership and the poset order                                          *)
(***************************************************************************)

identical(self, o) ==
    /\ self.bits = o.bits
    /\ self.stride = o.stride
    /\ self.lb = o.lb
    /\ self.ub = o.ub

wrapped_member(a, v) == lex_lte(v - a.lb, a.ub - a.lb, a.bits)

wrapped_lte(a, b) ==
    IF is_empty(a) THEN TRUE
    ELSE IF is_top(a) /\ is_top(b) THEN TRUE
    ELSE IF is_top(a) THEN FALSE
    ELSE IF is_top(b) THEN TRUE
    ELSE /\ wrapped_member(b, a.lb)
         /\ wrapped_member(b, a.ub)
         /\ \/ (b.lb = a.lb /\ b.ub = a.ub)
            \/ ~wrapped_member(a, b.lb)
            \/ ~wrapped_member(a, b.ub)

(***************************************************************************)
(* Lattice: complement, gap, extend, pseudo least upper bound, union       *)
(***************************************************************************)

\* complement that starts at the upper bound instead of one past it
complement_from_upper_bound(si) ==
    IF is_empty(si) THEN top(si.bits)
    ELSE IF is_top(si) THEN empty(si.bits)
    ELSE LET y_plus_1 == si.ub
             x_minus_1 == modular_sub(si.lb, 1, si.bits)
             dist == wrapped_cardinality(y_plus_1, x_minus_1, si.bits) - 1
             new_stride == IF dist < 0 THEN 0
                           ELSE IF si.stride = 0 THEN 1
                           ELSE gcd(si.stride, dist)
         IN  StridedInterval(si.bits, new_stride, y_plus_1, x_minus_1)

complement(si) ==
    IF is_empty(si) THEN top(si.bits)
    ELSE IF is_top(si) THEN empty(si.bits)
    ELSE LET y_plus_1 == modular_add(si.ub, 1, si.bits)
             x_minus_1 == modular_sub(si.lb, 1, si.bits)
             dist == wrapped_cardinality(y_plus_1, x_minus_1, si.bits) - 1
             new_stride == IF dist < 0 THEN 0
                           ELSE IF si.stride = 0 THEN 1
                           ELSE gcd(si.stride, dist)
         IN  StridedInterval(si.bits, new_stride, y_plus_1, x_minus_1)

gap(s, t) ==
    IF ~wrapped_member(t, s.ub) /\ ~wrapped_member(s, t.lb)
    THEN complement(StridedInterval(s.bits, 1, t.lb, s.ub))
    ELSE empty(s.bits)

interval_extend(s, t) ==
    LET w == s.bits
        a == s.lb
        b == s.ub
        c == t.lb
        d == t.ub
        new_stride ==
            IF is_integer(s) /\ is_integer(t) THEN wrapped_cardinality(a, c, w) - 1
            ELSE IF is_integer(s) THEN gcd(wrapped_cardinality(a, c, w) - 1, t.stride)
            ELSE IF is_integer(t) THEN gcd(wrapped_cardinality(b, c, w) - 1, s.stride)
            ELSE gcd(gcd(s.stride, t.stride), wrapped_cardinality(a, c, w) - 1)
    IN  IF wrapped_lte(s, t) THEN copy(t)
        ELSE IF wrapped_lte(t, s) THEN copy(s)
        ELSE IF wrapped_lte(complement(s), t) THEN top(w)
        ELSE StridedInterval(w, IF new_stride = -1 THEN 0 ELSE new_stride, a, d)

bigger(interval1, interval2) ==
    IF cardinality(interval2) > cardinality(interval1) THEN copy(interval2) ELSE copy(interval1)

\* sorted(intervals_to_join, key=lambda x: x.lower_bound): a stable sort
RECURSIVE insert_sorted(_, _)
insert_sorted(sorted, s) ==
    IF sorted = <<>> THEN <<s>>
    ELSE IF sorted[Len(sorted)].lb <= s.lb THEN Append(sorted, s)
    ELSE Append(insert_sorted(SubSeq(sorted, 1, Len(sorted) - 1), s), sorted[Len(sorted)])

RECURSIVE sorted_intervals(_)
sorted_intervals(intervals) ==
    IF intervals = <<>> THEN <<>>
    ELSE insert_sorted(sorted_intervals(SubSeq(intervals, 1, Len(intervals) - 1)),
                       intervals[Len(intervals)])

\* first loop of _least_upper_bound: extend f by the tops and the wrapping intervals
RECURSIVE lub_wrapping(_, _, _)
lub_wrapping(sorted, i, f) ==
    IF i > Len(sorted) THEN f
    ELSE LET s == sorted[i]
         IN  lub_wrapping(sorted, i + 1,
                 IF is_top(s) \/ lex_lte(s.ub, s.lb, s.bits) THEN interval_extend(f, s) ELSE f)

\* second loop of _least_upper_bound: fg = <<f, g>>
RECURSIVE lub_gaps(_, _, _)
lub_gaps(sorted, i, fg) ==
    IF i > Len(sorted) THEN fg
    ELSE LET s == sorted[i]
         IN  lub_gaps(sorted, i + 1, <<interval_extend(fg[1], s), bigger(fg[2], gap(fg[1], s))>>)

RECURSIVE gcd_strides(_, _, _)
gcd_strides(intervals, i, stride) ==
    IF i > Len(intervals) THEN stride
    ELSE gcd_strides(intervals, i + 1, gcd(stride, intervals[i].stride))

least_upper_bound_stride(si, intervals_to_join) ==
    LET s1 == IF is_integer(si) THEN [si EXCEPT !.stride = 0] ELSE si
    IN  IF is_top(s1) THEN [s1 EXCEPT !.stride = 1]
        ELSE [s1 EXCEPT !.stride = gcd_strides(intervals_to_join, 1, intervals_to_join[1].stride)]

least_upper_bound(intervals_to_join) ==
    IF Len(intervals_to_join) = 1 THEN copy(intervals_to_join[1])
    ELSE LET sorted == sorted_intervals(intervals_to_join)
             w == intervals_to_join[1].bits
             f0 == lub_wrapping(sorted, 1, empty(w))
             fg == lub_gaps(sorted, 1, <<f0, empty(w)>>)
             si == complement(bigger(fg[2], complement(fg[1])))
         IN  least_upper_bound_stride(si, intervals_to_join)

\* allow_dsis is False: union is the pseudo least upper bound of the two operands
union(a, b) == least_upper_bound(<<a, b>>)

intersection(s, t) ==
    LET w == s.bits
        a == s.lb
        b == s.ub
        c == t.lb
        d == t.ub
        new_stride == gcd(s.stride, t.stride)
    IN  IF is_empty(s) \/ is_empty(t) THEN {empty(w)}
        ELSE IF is_integer(s) /\ is_integer(t)
        THEN IF s.lb = t.lb THEN {StridedInterval(w, 0, s.lb, s.lb)} ELSE {empty(w)}
        ELSE IF is_integer(s)
        THEN IF (t.lb - s.lb) % t.stride = 0 /\ wrapped_member(t, s.lb)
             THEN {StridedInterval(w, 0, s.lb, s.lb)} ELSE {empty(w)}
        ELSE IF is_integer(t)
        THEN IF (t.lb - s.lb) % s.stride = 0 /\ wrapped_member(s, t.lb)
             THEN {StridedInterval(w, 0, t.lb, t.lb)} ELSE {empty(w)}
        ELSE IF (a = c /\ b = d) \/ is_top(s) THEN {[copy(t) EXCEPT !.stride = new_stride]}
        ELSE IF is_top(t) THEN {copy(s)}
        ELSE IF wrapped_member(t, a) /\ wrapped_member(t, b)
                /\ wrapped_member(s, c) /\ wrapped_member(s, d)
        THEN {StridedInterval(w, new_stride, a, d), StridedInterval(w, new_stride, c, b)}
        ELSE IF wrapped_member(t, a) /\ wrapped_member(t, b)
        THEN {[copy(s) EXCEPT !.stride = new_stride]}
        ELSE IF wrapped_member(s, c) /\ wrapped_member(s, d)
        THEN {[copy(t) EXCEPT !.stride = new_stride]}
        ELSE IF wrapped_member(t, a) /\ wrapped_member(s, d)
                /\ ~wrapped_member(t, b) /\ ~wrapped_member(s, c)
        THEN {StridedInterval(w, new_stride, a, d)}
        ELSE IF wrapped_member(t, b) /\ wrapped_member(s, c)
                /\ ~wrapped_member(t, a) /\ ~wrapped_member(s, d)
        THEN {StridedInterval(w, new_stride, c, b)}
        ELSE {empty(w)}

(***************************************************************************)
(* Pole splitting                                                          *)
(***************************************************************************)

ssplit(si) ==
    LET south_pole_right == max_int(si.bits)
        a_upper_bound == south_pole_right - ((south_pole_right - si.lb) % si.stride)
        b_lower_bound == modular_add(a_upper_bound, si.stride, si.bits)
    IN  IF si.ub < si.lb
        THEN << StridedInterval(si.bits, si.stride, si.lb, a_upper_bound),
                StridedInterval(si.bits, si.stride, b_lower_bound, si.ub) >>
        ELSE << copy(si) >>

nsplit(si) ==
    LET north_pole_left == max_int(si.bits - 1)
        north_pole_right == 2 ^ (si.bits - 1)
        straddling ==
            IF si.ub >= north_pole_right
            THEN si.lb > si.ub \/ si.lb <= north_pole_left
            ELSE si.lb > si.ub /\ si.lb <= north_pole_left
        a_upper_bound == north_pole_left - ((north_pole_left - si.lb) % si.stride)
        b_lower_bound == a_upper_bound + si.stride
    IN  IF straddling
        THEN << StridedInterval(si.bits, si.stride, si.lb, a_upper_bound),
                StridedInterval(si.bits, si.stride, b_lower_bound, si.ub) >>
        ELSE << copy(si) >>

RECURSIVE psplit_extend(_, _)
psplit_extend(nsplit_list, i) ==
    IF i > Len(nsplit_list) THEN <<>>
    ELSE ssplit(nsplit_list[i]) \o psplit_extend(nsplit_list, i + 1)

psplit(si) == psplit_extend(nsplit(si), 1)

(***************************************************************************)
(* Bitwise operations on Python integers                                   *)
(***************************************************************************)

RECURSIVE nat_and(_, _)
nat_and(a, b) ==
    IF a = 0 \/ b = 0 THEN 0 ELSE (a % 2) * (b % 2) + 2 * nat_and(a \div 2, b \div 2)

RECURSIVE nat_or(_, _)
nat_or(a, b) ==
    IF a = 0 THEN b
    ELSE IF b = 0 THEN a
    ELSE (IF a % 2 = 1 \/ b % 2 = 1 THEN 1 ELSE 0) + 2 * nat_or(a \div 2, b \div 2)

\* ~v
bit_not(v) == (0 - v) - 1

\* (a & b) mod 2^w on Python integers of either sign (two's complement); it is
\* a & b itself when one of the two is in 0 .. 2^w - 1, as at every use below
bit_and(a, b, w) == nat_and(a % (2 ^ w), b % (2 ^ w))

\* a | b for naturals
bit_or(a, b) == nat_or(a, b)

RECURSIVE nat_xor(_, _)
nat_xor(a, b) ==
    IF a = 0 THEN b
    ELSE IF b = 0 THEN a
    ELSE (IF a % 2 # b % 2 THEN 1 ELSE 0) + 2 * nat_xor(a \div 2, b \div 2)

\* a ^ b for naturals
bit_xor(a, b) == nat_xor(a, b)

(***************************************************************************)
(* WarrenMethods                                                           *)
(***************************************************************************)

\* min_or that takes the OR of the two lower bounds
min_or_of_lower_bounds(a, b, c, d, w) == bit_or(a, c)

RECURSIVE min_or_loop(_, _, _, _, _, _)
min_or_loop(a, b, c, d, m, w) ==
    IF m = 0 THEN bit_or(a, c)
    ELSE IF bit_and(bit_and(bit_not(a), c, w), m, w) # 0
    THEN LET temp == bit_and(bit_or(a, m), 0 - m, w)
         IN  IF temp <= b THEN bit_or(temp, c) ELSE min_or_loop(a, b, c, d, m \div 2, w)
    ELSE IF bit_and(bit_and(a, bit_not(c), w), m, w) # 0
    THEN LET temp == bit_and(bit_or(c, m), 0 - m, w)
         IN  IF temp <= d THEN bit_or(a, temp) ELSE min_or_loop(a, b, c, d, m \div 2, w)
    ELSE min_or_loop(a, b, c, d, m \div 2, w)

min_or(a, b, c, d, w) == min_or_loop(a, b, c, d, 2 ^ (w - 1), w)

RECURSIVE max_or_loop(_, _, _, _, _, _)
max_or_loop(a, b, c, d, m, w) ==
    IF m = 0 THEN bit_or(b, d)
    ELSE IF bit_and(bit_and(b, d, w), m, w) # 0
    THEN LET temp1 == bit_or(b - m, m - 1)
             temp2 == bit_or(d - m, m - 1)
         IN  IF temp1 >= a THEN bit_or(temp1, d)
             ELSE IF temp2 >= c THEN bit_or(b, temp2)
             ELSE max_or_loop(a, b, c, d, m \div 2, w)
    ELSE max_or_loop(a, b, c, d, m \div 2, w)

max_or(a, b, c, d, w) == max_or_loop(a, b, c, d, 2 ^ (w - 1), w)

RECURSIVE min_and_loop(_, _, _, _, _, _)
min_and_loop(a, b, c, d, m, w) ==
    IF m = 0 THEN bit_and(a, c, w)
    ELSE IF bit_and(bit_and(bit_not(a), bit_not(c), w), m, w) # 0
    THEN LET temp1 == bit_and(bit_or(a, m), 0 - m, w)
             temp2 == bit_and(bit_or(c, m), 0 - m, w)
         IN  IF temp1 <= b THEN bit_and(temp1, c, w)
             ELSE IF temp2 <= d THEN bit_and(a, temp2, w)
             ELSE min_and_loop(a, b, c, d, m \div 2, w)
    ELSE min_and_loop(a, b, c, d, m \div 2, w)

min_and(a, b, c, d, w) == min_and_loop(a, b, c, d, 2 ^ (w - 1), w)

\* max_and that takes the AND of the two upper bounds
max_and_of_upper_bounds(a, b, c, d, w) == bit_and(b, d, w)

RECURSIVE max_and_loop(_, _, _, _, _, _)
max_and_loop(a, b, c, d, m, w) ==
    IF m = 0 THEN bit_and(b, d, w)
    ELSE IF bit_and(bit_and(bit_not(d), b, w), m, w) # 0
    THEN LET temp == bit_or(bit_and(b, bit_not(m), w), m - 1)
         IN  IF temp >= a THEN bit_and(temp, d, w) ELSE max_and_loop(a, b, c, d, m \div 2, w)
    ELSE IF bit_and(bit_and(d, bit_not(b), w), m, w) # 0
    THEN LET temp == bit_or(bit_and(d, bit_not(m), w), m - 1)
         IN  IF temp >= c THEN bit_and(b, temp, w) ELSE max_and_loop(a, b, c, d, m \div 2, w)
    ELSE max_and_loop(a, b, c, d, m \div 2, w)

max_and(a, b, c, d, w) == max_and_loop(a, b, c, d, 2 ^ (w - 1), w)

\* min_xor that leaves the scan at its first adjustment, as min_or does
RECURSIVE min_xor_break_loop(_, _, _, _, _, _)
min_xor_break_loop(a, b, c, d, m, w) ==
    IF m = 0 THEN bit_xor(a, c)
    ELSE IF bit_and(bit_and(bit_not(a), c, w), m, w) # 0
    THEN LET temp == bit_and(bit_or(a, m), 0 - m, w)
         IN  IF temp <= b THEN bit_xor(temp, c) ELSE min_xor_break_loop(a, b, c, d, m \div 2, w)
    ELSE IF bit_and(bit_and(a, bit_not(c), w), m, w) # 0
    THEN LET temp == bit_and(bit_or(c, m), 0 - m, w)
         IN  IF temp <= d THEN bit_xor(a, temp) ELSE min_xor_break_loop(a, b, c, d, m \div 2, w)
    ELSE min_xor_break_loop(a, b, c, d, m \div 2, w)

min_xor_break(a, b, c, d, w) == min_xor_break_loop(a, b, c, d, 2 ^ (w - 1), w)

\* The scan of min_xor goes on after an adjustment of a or of c
RECURSIVE min_xor_loop(_, _, _, _, _, _)
min_xor_loop(a, b, c, d, m, w) ==
    IF m = 0 THEN bit_xor(a, c)
    ELSE IF bit_and(bit_and(bit_not(a), c, w), m, w) # 0
    THEN LET temp == bit_and(bit_or(a, m), 0 - m, w)
         IN  min_xor_loop(IF temp <= b THEN temp ELSE a, b, c, d, m \div 2, w)
    ELSE IF bit_and(bit_and(a, bit_not(c), w), m, w) # 0
    THEN LET temp == bit_and(bit_or(c, m), 0 - m, w)
         IN  min_xor_loop(a, b, IF temp <= d THEN temp ELSE c, d, m \div 2, w)
    ELSE min_xor_loop(a, b, c, d, m \div 2, w)

min_xor(a, b, c, d, w) == min_xor_loop(a, b, c, d, 2 ^ (w - 1), w)

RECURSIVE max_xor_loop(_, _, _, _, _, _)
max_xor_loop(a, b, c, d, m, w) ==
    IF m = 0 THEN bit_xor(b, d)
    ELSE IF bit_and(bit_and(b, d, w), m, w) # 0
    THEN LET temp1 == bit_or(b - m, m - 1)
             temp2 == bit_or(d - m, m - 1)
         IN  IF temp1 >= a THEN max_xor_loop(a, temp1, c, d, m \div 2, w)
             ELSE IF temp2 >= c THEN max_xor_loop(a, b, c, temp2, m \div 2, w)
             ELSE max_xor_loop(a, b, c, d, m \div 2, w)
    ELSE max_xor_loop(a, b, c, d, m \div 2, w)

max_xor(a, b, c, d, w) == max_xor_loop(a, b, c, d, 2 ^ (w - 1), w)

(***************************************************************************)
(* Comparisons                                                             *)
(***************************************************************************)

\* for u in us: for v in vs: result.append(f(u, v))
pairs(us, vs) ==
    [k \in 1 .. (Len(us) * Len(vs)) |->
        <<us[((k - 1) \div Len(vs)) + 1], vs[((k - 1) % Len(vs)) + 1]>>]

\* The three results of a comparison (class BoolResult)
TrueResult == "True"

FalseResult == "False"

MaybeResult == "Maybe"

\* self._unsigned_bounds(): the (lower, upper) pairs of the pieces south of
\* which self does not wrap
unsigned_bounds(si) ==
    LET pieces == ssplit(si)
    IN  [k \in 1 .. Len(pieces) |-> <<pieces[k].lb, pieces[k].ub>>]

\* self._signed_bounds(): the (lower, upper) pairs, as signed integers, of the
\* pieces north of which self does not wrap
signed_bounds(si) ==
    LET pieces == nsplit(si)
    IN  IF Len(pieces) = 1
        THEN << <<unsigned_to_signed(pieces[1].lb, si.bits),
                  unsigned_to_signed(pieces[1].ub, si.bits)>> >>
        ELSE << <<pieces[1].lb, pieces[1].ub>>,
                <<unsigned_to_signed(pieces[2].lb, si.bits),
                  unsigned_to_signed(pieces[2].ub, si.bits)>> >>

\* all-True gives True, all-False gives False, anything else Maybe
all_results(results) ==
    IF \A k \in 1 .. Len(results) : results[k] = TrueResult THEN TrueResult
    ELSE IF \A k \in 1 .. Len(results) : results[k] = FalseResult THEN FalseResult
    ELSE MaybeResult

\* if ub_1 < lb_2: True; elif lb_1 >= ub_2: False; else: Maybe
less_than(bounds_1, bounds_2) ==
    LET bs == pairs(bounds_1, bounds_2)
    IN  all_results([k \in 1 .. Len(bs) |->
            IF bs[k][1][2] < bs[k][2][1] THEN TrueResult
            ELSE IF bs[k][1][1] >= bs[k][2][2] THEN FalseResult
            ELSE MaybeResult])

\* if ub_1 <= lb_2: True; elif lb_1 > ub_2: False; else: Maybe
less_or_equal(bounds_1, bounds_2) ==
    LET bs == pairs(bounds_1, bounds_2)
    IN  all_results([k \in 1 .. Len(bs) |->
            IF bs[k][1][2] <= bs[k][2][1] THEN TrueResult
            ELSE IF bs[k][1][1] > bs[k][2][2] THEN FalseResult
            ELSE MaybeResult])

\* if lb_1 >= ub_2: True; elif ub_1 < lb_2: False; else: Maybe
greater_or_equal(bounds_1, bounds_2) ==
    LET bs == pairs(bounds_1, bounds_2)
    IN  all_results([k \in 1 .. Len(bs) |->
            IF bs[k][1][1] >= bs[k][2][2] THEN TrueResult
            ELSE IF bs[k][1][2] < bs[k][2][1] THEN FalseResult
            ELSE MaybeResult])

SLT(self, o) == less_than(signed_bounds(self), signed_bounds(o))

SGE(self, o) == greater_or_equal(signed_bounds(self), signed_bounds(o))

\* ULT that compares the signed bounds of the operands
ULT_on_signed_bounds(self, o) == less_than(signed_bounds(self), signed_bounds(o))

ULT(self, o) == less_than(unsigned_bounds(self), unsigned_bounds(o))

ULE(self, o) == less_or_equal(unsigned_bounds(self), unsigned_bounds(o))

(***************************************************************************)
(* Arithmetic                                                              *)
(***************************************************************************)

wrappedoverflow_add(a, b) ==
    LET card_self == IF is_integer(a) /\ a.lb = 0 THEN 0
                     ELSE wrapped_cardinality(a.lb, a.ub, a.bits)
        card_b == IF is_integer(b) /\ b.lb = 0 THEN 0
                  ELSE wrapped_cardinality(b.lb, b.ub, b.bits)
    IN  (card_self + card_b) > max_int(a.bits)

wrappedoverflow_sub(a, b) == wrappedoverflow_add(a, b)

max2(a, b) == IF a >= b THEN a ELSE b

\* add with the strides summed where the code takes their gcd
add_stride_sum(self, b) ==
    LET new_bits == max2(self.bits, b.bits)
        lb == modular_add(self.lb, b.lb, new_bits)
        ub == modular_add(self.ub, b.ub, new_bits)
        uninitialized == self.uninit \/ b.uninit
        stride == self.stride + b.stride
    IN  IF wrappedoverflow_add(self, b) THEN top(self.bits)
        ELSE normalize(StridedIntervalU(new_bits, stride, lb, ub, uninitialized, FALSE))

add(self, b) ==
    LET new_bits == max2(self.bits, b.bits)
        lb == modular_add(self.lb, b.lb, new_bits)
        ub == modular_add(self.ub, b.ub, new_bits)
        uninitialized == self.uninit \/ b.uninit
        stride == gcd(self.stride, b.stride)
    IN  IF wrappedoverflow_add(self, b) THEN top(self.bits)
        ELSE normalize(StridedIntervalU(new_bits, stride, lb, ub, uninitialized, FALSE))

sub(self, b) ==
    LET new_bits == max2(self.bits, b.bits)
        lb == modular_sub(self.lb, b.ub, new_bits)
        ub == modular_sub(self.ub, b.lb, new_bits)
        uninitialized == self.uninit \/ b.uninit
        stride == gcd(self.stride, b.stride)
    IN  IF wrappedoverflow_sub(self, b) THEN top(self.bits)
        ELSE normalize(StridedIntervalU(new_bits, stride, lb, ub, uninitialized, FALSE))

\* neg with the operands of the subtraction swapped: self - 0
neg_operands_swapped(self) == sub(self, StridedInterval(self.bits, 0, 0, 0))

neg(self) == sub(StridedInterval(self.bits, 0, 0, 0), self)

\* The outcome of a call that raises
Raise(exception) == [raise |-> exception]

Raised(result) == "raise" \in DOMAIN result

mul_stride(a, b) ==
    IF is_integer(b) THEN a.stride * b.lb
    ELSE IF is_integer(a) THEN a.lb * b.stride
    ELSE gcd(a.stride, b.stride)

wrapped_unsigned_mul(a, b) ==
    LET bits == max2(a.bits, b.bits)
        lb == a.lb * b.lb
        ub == a.ub * b.ub
    IN  IF (ub - lb) < 2 ^ bits
        THEN StridedInterval(bits, mul_stride(a, b), lb, ub)
        ELSE topU(bits, FALSE)

wrapped_signed_mul(a, b) ==
    LET bits == max2(a.bits, b.bits)
        a_lb_positive == is_msb_zero(a.lb, bits)
        a_ub_positive == is_msb_zero(a.ub, bits)
        b_lb_positive == is_msb_zero(b.lb, bits)
        b_ub_positive == is_msb_zero(b.ub, bits)
        stride == mul_stride(a, b)
        signed(v) == unsigned_to_signed(v, bits)
        bounded(lb, ub) ==
            IF ub - lb < 2 ^ bits THEN StridedInterval(bits, stride, lb, ub) ELSE top(bits)
    IN  IF a_lb_positive /\ a_ub_positive /\ b_lb_positive /\ b_ub_positive
        THEN bounded(a.lb * b.lb, a.ub * b.ub)
        ELSE IF ~a_lb_positive /\ ~a_ub_positive /\ ~b_lb_positive /\ ~b_ub_positive
        THEN bounded(signed(a.ub) * signed(b.ub), signed(a.lb) * signed(b.lb))
        ELSE IF ~a_lb_positive /\ ~a_ub_positive /\ b_lb_positive /\ b_ub_positive
        THEN bounded(signed(a.lb) * b.ub, signed(a.ub) * b.lb)
        ELSE IF a_lb_positive /\ a_ub_positive /\ ~b_lb_positive /\ ~b_ub_positive
        THEN bounded(a.ub * signed(b.lb), a.lb * signed(b.ub))
        ELSE Raise("Exception")

\* for tmp_meet in s.intersection(t): the one or two meets, lower bound first (the
\* join sorts them by lower bound next)
meets(s, t) ==
    LET m == intersection(s, t)
        first == CHOOSE i \in m : \A j \in m : i.lb <= j.lb
    IN  IF Cardinality(m) = 1 THEN <<first>> ELSE <<first, CHOOSE j \in m : j # first>>

RECURSIVE mul_intervals(_, _)
mul_intervals(sis, k) ==
    IF k > Len(sis) THEN <<>>
    ELSE meets(wrapped_unsigned_mul(sis[k][1], sis[k][2]), wrapped_signed_mul(sis[k][1], sis[k][2]))
            \o mul_intervals(sis, k + 1)

mul(self, o) ==
    LET sis == pairs(psplit(self), psplit(o))
    IN  IF is_integer(self) /\ is_integer(o)
        THEN normalize(StridedInterval(self.bits, 0, self.lb * o.lb, self.lb * o.lb))
        ELSE IF \E k \in 1 .. Len(sis) : Raised(wrapped_signed_mul(sis[k][1], sis[k][2]))
        THEN Raise("Exception")
        ELSE normalize(least_upper_bound(mul_intervals(sis, 1)))

\* a / b on Python 2 integers (floor division); every divisor below is nonzero
floor_div(a, b) == IF b > 0 THEN a \div b ELSE (0 - a) \div (0 - b)

\* wrapped_unsigned_div where a zero divisor is stepped to 1 instead of giving empty
wrapped_unsigned_div_step_zero(a, b) ==
    LET bits == max2(a.bits, b.bits)
        divisor_lb == IF b.lb = 0 THEN b.lb + 1 ELSE b.lb
        divisor_ub == IF b.ub = 0 THEN divisor_lb ELSE b.ub
    IN  StridedInterval(bits, 1, floor_div(a.lb, divisor_ub), floor_div(a.ub, divisor_lb))

wrapped_unsigned_div(a, b) ==
    LET bits == max2(a.bits, b.bits)
        divisor_lb == IF b.lb = 0 THEN b.lb + 1 ELSE b.lb
        divisor_ub == IF b.ub = 0 THEN mask_bits(b.ub - 1, bits) ELSE b.ub
    IN  IF b.lb = 0 /\ b.ub = 0 THEN empty(bits)
        ELSE StridedInterval(bits, 1, floor_div(a.lb, divisor_ub), floor_div(a.ub, divisor_lb))

wrapped_signed_div(a, b) ==
    LET bits == max2(a.bits, b.bits)
        divisor_lb == IF b.lb = 0 THEN 1 ELSE b.lb
        divisor_ub == IF b.ub = 0 THEN mask_bits(b.ub - 1, bits) ELSE b.ub
        dividend_positive == is_msb_zero(a.lb, bits)
        divisor_positive == is_msb_zero(b.lb, bits)
        signed(v) == unsigned_to_signed(v, bits)
    IN  IF b.lb = 0 /\ b.ub = 0 THEN empty(bits)
        ELSE IF dividend_positive /\ divisor_positive
        THEN StridedInterval(bits, 1, floor_div(a.lb, divisor_ub), floor_div(a.ub, divisor_lb))
        ELSE IF dividend_positive /\ ~divisor_positive
        THEN StridedInterval(bits, 1, floor_div(a.ub, signed(divisor_ub)),
                                      floor_div(a.lb, signed(divisor_lb)))
        ELSE IF ~dividend_positive /\ divisor_positive
        THEN StridedInterval(bits, 1, floor_div(signed(a.lb), divisor_lb),
                                      floor_div(signed(a.ub), divisor_ub))
        ELSE StridedInterval(bits, 1, floor_div(signed(a.ub), signed(b.lb)),
                                      floor_div(signed(a.lb), signed(b.ub)))

\* self.__hash__(): the bottom flag is not part of it
hash_key(si) == <<si.bits, si.lb, si.ub, si.stride, si.reversed, si.uninit>>

\* list(resulting_intervals) after every tmp was added to the set: the lists a set
\* can give.  Intervals of different hash are different members; for two of the
\* same hash the set asks __eq__, whose BoolResult may count as true (one member)
\* or as false (two members); the order of a set's members is not fixed.
resulting_lists(tmps) ==
    LET n == Len(tmps)
        kept == { I \in SUBSET (1 .. n) :
                    \A k \in 1 .. n : \E i \in I : hash_key(tmps[i]) = hash_key(tmps[k]) }
        orders(I) == { f \in [1 .. Cardinality(I) -> I] :
                         \A i, j \in 1 .. Cardinality(I) : f[i] = f[j] => i = j }
    IN  UNION { { [k \in 1 .. Cardinality(I) |-> tmps[f[k]]] : f \in orders(I) } : I \in kept }

\* self.sdiv(o): the set of intervals it can return
sdiv(self, o) ==
    LET ds == pairs(psplit(self), psplit(o))
        tmps == [k \in 1 .. Len(ds) |-> wrapped_signed_div(ds[k][1], ds[k][2])]
    IN  { normalize(least_upper_bound(l)) : l \in resulting_lists(tmps) }

\* self.udiv(o): the set of intervals it can return
udiv(self, o) ==
    LET ds == pairs(ssplit(self), ssplit(o))
        tmps == [k \in 1 .. Len(ds) |-> wrapped_unsigned_div(ds[k][1], ds[k][2])]
    IN  { normalize(least_upper_bound(l)) : l \in resulting_lists(tmps) }

(***************************************************************************)
(* Bitwise                                                                 *)
(***************************************************************************)

bitwise_not(self) ==
    LET splitted_si == ssplit(self)
        result_interval ==
            [k \in 1 .. Len(splitted_si) |->
                StridedInterval(self.bits, self.stride,
                                bit_not(splitted_si[k].ub), bit_not(splitted_si[k].lb))]
    IN  normalize(least_upper_bound(result_interval))

\* bitwise_or with the Warren bounds of AND where the code takes those of OR
bitwise_or_and_bounds(s, t) ==
    LET uv == pairs(ssplit(s), ssplit(t))
        result_interval ==
            [k \in 1 .. Len(uv) |->
                LET u == uv[k][1]
                    v == uv[k][2]
                IN  StridedInterval(u.bits, 1,
                                    min_and(u.lb, u.ub, v.lb, v.ub, u.bits),
                                    max_and(u.lb, u.ub, v.lb, v.ub, u.bits))]
    IN  normalize(least_upper_bound(result_interval))

bitwise_or(s, t) ==
    LET uv == pairs(ssplit(s), ssplit(t))
        result_interval ==
            [k \in 1 .. Len(uv) |->
                LET u == uv[k][1]
                    v == uv[k][2]
                IN  StridedInterval(u.bits, 1,
                                    min_or(u.lb, u.ub, v.lb, v.ub, u.bits),
                                    max_or(u.lb, u.ub, v.lb, v.ub, u.bits))]
    IN  normalize(least_upper_bound(result_interval))

bitwise_and(s, t) ==
    LET uv == pairs(ssplit(s), ssplit(t))
        result_interval ==
            [k \in 1 .. Len(uv) |->
                LET u == uv[k][1]
                    v == uv[k][2]
                IN  StridedInterval(u.bits, 1,
                                    min_and(u.lb, u.ub, v.lb, v.ub, u.bits),
                                    max_and(u.lb, u.ub, v.lb, v.ub, u.bits))]
    IN  normalize(least_upper_bound(result_interval))

\* The name mew_stride is bound nowhere: building the first new_interval raises
\* NameError, after min_xor and max_xor returned and before the constructor runs
bitwise_xor(s, t) ==
    LET uv == pairs(ssplit(s), ssplit(t))
    IN  IF Len(uv) > 0 THEN Raise("NameError")
        ELSE Raise("AssertionError")

(***************************************************************************)
(* Width                                                                   *)
(***************************************************************************)

zero_extend(self, new_length) == [copy(self) EXCEPT !.bits = new_length]

\* while len(results) < n and lb <= ub: results.append(lb); lb += self.stride
RECURSIVE eval_walk(_, _, _, _, _)
eval_walk(results, lb, ub, stride, n) ==
    IF Len(results) < n /\ lb <= ub
    THEN eval_walk(Append(results, lb), lb + stride, ub, stride, n)
    ELSE results

RECURSIVE eval_bounds(_, _, _, _, _)
eval_bounds(results, bounds, k, stride, n) ==
    IF k > Len(bounds) THEN results
    ELSE eval_bounds(eval_walk(results, bounds[k][1], bounds[k][2], stride, n),
                     bounds, k + 1, stride, n)

\* self.eval(n): at most n concrete unsigned integers of self
eval(si, n) ==
    IF is_empty(si) THEN <<>>
    ELSE IF si.stride = 0 /\ n > 0 THEN <<si.lb>>
    ELSE IF si.stride = 0 THEN <<>>
    ELSE eval_bounds(<<>>, unsigned_bounds(si), 1, si.stride, n)

set_min(S) == CHOOSE m \in S : \A n \in S : m <= n

set_max(S) == CHOOSE m \in S : \A n \in S : m >= n

\* round(max, x) of get_range
round(max, v) == IF v < 0 \/ v > max THEN max ELSE v

\* get_range(expr) of self._pre_shift for a StridedInterval expr: the last case
\* rounds the bounds of self
get_range(self, expr) ==
    IF is_integer(expr) THEN <<round(self.bits, expr.lb), round(self.bits, expr.lb)>>
    ELSE IF expr.lb < 0
    THEN IF expr.ub >= 0 THEN <<0, self.bits>> ELSE <<self.bits, self.bits>>
    ELSE <<round(self.bits, self.lb), round(self.bits, self.ub)>>

\* self._pre_shift(shift_amount) for a StridedInterval shift_amount
pre_shift(self, shift_amount) == get_range(self, shift_amount)

\* The body of rshift (preserve_sign=False) once lower, upper are known; a loop
\* over no shift amount leaves both bounds None, which the constructor reads as
\* 0 and 2^bits - 1
rshift_range(self, lower, upper) ==
    LET new_lower_bound ==
            IF lower > upper THEN 0
            ELSE set_min({ self.lb \div (2 ^ k) : k \in lower .. upper })
        new_upper_bound ==
            IF lower > upper THEN 2 ^ self.bits - 1
            ELSE set_max({ self.ub \div (2 ^ k) : k \in lower .. upper })
    IN  normalize(StridedInterval(self.bits, max2(self.stride \div (2 ^ upper), 1),
                                  new_lower_bound, new_upper_bound))

\* The body of lshift once lower, upper are known
lshift_range(self, lower, upper) ==
    LET new_lower_bound ==
            IF lower > upper THEN 0
            ELSE set_min({ self.lb * (2 ^ k) : k \in lower .. upper })
        new_upper_bound ==
            IF lower > upper THEN 2 ^ self.bits - 1
            ELSE set_max({ self.ub * (2 ^ k) : k \in lower .. upper })
    IN  normalize(StridedInterval(self.bits, max2(self.stride * (2 ^ lower), 1),
                                  new_lower_bound, new_upper_bound))

\* self.rshift(shift_amount) for an integer shift_amount, preserve_sign=False
rshift(self, shift_amount) == rshift_range(self, shift_amount, shift_amount)

\* self.lshift(shift_amount) for an integer shift_amount
lshift(self, shift_amount) == lshift_range(self, shift_amount, shift_amount)

\* self.rshift(shift_amount) for a StridedInterval shift_amount
rshift_interval(self, shift_amount) ==
    LET range == pre_shift(self, shift_amount)
    IN  rshift_range(self, range[1], range[2])

\* self.lshift(shift_amount) for a StridedInterval shift_amount
lshift_interval(self, shift_amount) ==
    LET range == pre_shift(self, shift_amount)
    IN  lshift_range(self, range[1], range[2])

\* The branch 'stride >= 1 << tok' returns only when the lower bound fits in tok
\* bits; otherwise it builds an empty interval, drops it and falls through.
cast_low(self, tok) ==
    LET mask == (2 ^ tok) - 1
        lb_masked == mask_bits(self.lb, tok)
        ub_masked == mask_bits(self.ub, tok)
    IN  IF tok > self.bits THEN Raise("AssertionError")
        ELSE IF self.stride >= 2 ^ tok /\ lb_masked = self.lb
        THEN StridedInterval(tok, 0, self.lb, self.lb)
        ELSE IF tok = self.bits THEN copy(self)
        ELSE IF lb_masked = self.lb /\ ub_masked = self.ub
        THEN StridedInterval(tok, self.stride, self.lb, self.ub)
        ELSE IF self.ub - self.lb <= mask
        THEN StridedInterval(tok, self.stride, lb_masked, ub_masked)
        ELSE IF ub_masked = lb_masked /\ mask_bits(self.ub - self.lb, tok) = 0
        THEN StridedInterval(tok, 0, lb_masked, lb_masked)
        ELSE top(tok)

extract(self, high_bit, low_bit) ==
    LET bits == high_bit - low_bit + 1
        shifted == IF low_bit # 0 THEN rshift(self, low_bit) ELSE copy(self)
        result == IF bits # self.bits THEN cast_low(shifted, bits) ELSE shifted
    IN  IF low_bit < 0 THEN Raise("AssertionError")
        ELSE IF Raised(result) THEN result
        ELSE normalize(result)

\* The operands keep their own widths (normalize_types does not extend them)
concat(self, b) ==
    LET a == [copy(self) EXCEPT !.bits = self.bits + b.bits]
        new_si == lshift(a, b.bits)
        new_b == [copy(b) EXCEPT !.bits = new_si.bits]
    IN  IF is_integer(new_si)
        THEN [new_si EXCEPT !.bits = new_b.bits, !.stride = new_b.stride,
                            !.lb = new_si.lb + b.lb, !.ub = new_si.ub + b.ub]
        ELSE bitwise_or(new_si, new_b)

RECURSIVE sign_extend_union(_, _, _, _, _)
sign_extend_union(si, numbers, k, bits, new_length) ==
    IF k > Len(numbers) THEN si
    ELSE LET n == numbers[k]
             mask == (2 ^ new_length - 1) - (2 ^ bits - 1)
             si_ == IF n.ub < 2 ^ (n.bits - 1)
                    THEN StridedInterval(new_length, n.stride, n.lb, n.ub)
                    ELSE StridedInterval(new_length, n.stride,
                                         bit_or(n.lb, mask), bit_or(n.ub, mask))
         IN  sign_extend_union(union(si, si_), numbers, k + 1, bits, new_length)

\* sign_extend that ORs every bit of the new width into negative bounds
sign_extend_full_mask(self, new_length) ==
    LET msb == eval(extract(self, self.bits - 1, self.bits - 1), 2)
        mask == 2 ^ new_length - 1
    IN  IF msb = <<0>> THEN zero_extend(self, new_length)
        ELSE IF msb = <<1>>
        THEN [copy(self) EXCEPT !.bits = new_length,
                                !.lb = bit_or(self.lb, mask), !.ub = bit_or(self.ub, mask)]
        ELSE sign_extend_union(empty(new_length), nsplit(self), 1, self.bits, new_length)

sign_extend(self, new_length) ==
    LET msb == eval(extract(self, self.bits - 1, self.bits - 1), 2)
        mask == (2 ^ new_length - 1) - (2 ^ self.bits - 1)
    IN  IF msb = <<0>> THEN zero_extend(self, new_length)
        ELSE IF msb = <<1>>
        THEN [copy(self) EXCEPT !.bits = new_length,
                                !.lb = bit_or(self.lb, mask), !.ub = bit_or(self.ub, mask)]
        ELSE sign_extend_union(empty(new_length), nsplit(self), 1, self.bits, new_length)

(***************************************************************************)
(* Widening                                                                *)
(***************************************************************************)

upper(bits, i, stride) ==
    IF stride >= 1
    THEN LET offset == i % stride
             max == max_int(bits)
             max_offset == max % stride
         IN  IF max_offset >= offset THEN max - (max_offset - offset)
             ELSE max - ((max_offset + stride) - offset)
    ELSE max_int(bits)

lower(bits, i, stride) ==
    IF stride >= 1
    THEN LET offset == i % stride
             min == min_int(bits)
             min_offset == min % stride
         IN  IF offset >= min_offset THEN min + (offset - min_offset)
             ELSE min + ((offset + stride) - min_offset)
    ELSE min_int(bits)

widen(self, b) ==
    LET new_stride == gcd(self.stride, b.stride)
        l == IF b.lb < self.lb THEN lower(self.bits, self.lb, new_stride) ELSE self.lb
        u == IF b.ub > self.ub THEN upper(self.bits, self.ub, new_stride) ELSE self.ub
    IN  IF is_empty(self) /\ ~is_empty(b) THEN normalize(top(self.bits))
        ELSE IF is_empty(self) THEN normalize(b)
        ELSE IF is_empty(b) THEN normalize(self)
        ELSE IF new_stride = 0
        THEN IF is_integer(self) /\ is_integer(b)
             THEN normalize(StridedInterval(self.bits, 1, l, u))
             ELSE Raise("ClaripyOperationError")
        ELSE normalize(StridedInterval(self.bits, new_stride, l, u))

(***************************************************************************)
(* The calls                                                               *)
(***************************************************************************)

\* Every strided interval of one width the constructor builds from a stride that
\* divides the distance between the bounds (stride 0 exactly for a singleton).
Universe(bits) ==
    { StridedInterval(bits, s, l, u) :
        <<s, l, u>> \in { t \in (0 .. max_int(bits)) \X (0 .. max_int(bits)) \X (0 .. max_int(bits)) :
                            IF t[2] = t[3] THEN t[1] = 0
                            ELSE t[1] > 0 /\ modular_sub(t[3], t[2], bits) % t[1] = 0 } }

Init ==
    /\ x \in Universe(Bits) \cup {empty(Bits)}
    /\ y \in Universe(Bits) \cup {empty(Bits)}
    /\ op = "init"
    /\ arg = <<>>
    /\ ret = None

\* A call of a method that takes the two operands
Call(name, result) ==
    /\ op = "init"
    /\ op' = name
    /\ arg' = <<>>
    /\ ret' = result
    /\ UNCHANGED <<x, y>>

\* A call of a method of x that takes integer arguments
CallArg(name, args, result) ==
    /\ op = "init"
    /\ op' = name
    /\ arg' = args
    /\ ret' = result
    /\ UNCHANGED <<x, y>>

Union == Call("union", union(x, y))

Intersection == Call("intersection", intersection(x, y))

WrappedLte == Call("wrapped_lte", wrapped_lte(x, y))

Complement == Call("complement", complement(x))

Add == Call("add", add(x, y))

Sub == Call("sub", sub(x, y))

Mul == Call("mul", mul(x, y))

Neg == Call("neg", neg(x))

BitwiseNot == Call("bitwise_not", bitwise_not(x))

BitwiseOr == Call("bitwise_or", bitwise_or(x, y))

BitwiseAnd == Call("bitwise_and", bitwise_and(x, y))

BitwiseXor == Call("bitwise_xor", bitwise_xor(x, y))

ZeroExtend ==
    \E n \in 1 .. MaxExtend :
        CallArg("zero_extend", <<x.bits + n>>, zero_extend(x, x.bits + n))

SignExtend ==
    \E n \in 1 .. MaxExtend :
        CallArg("sign_extend", <<x.bits + n>>, sign_extend(x, x.bits + n))

Extract ==
    \E high_bit \in 0 .. (x.bits - 1) :
        \E low_bit \in 0 .. high_bit :
            CallArg("extract", <<high_bit, low_bit>>, extract(x, high_bit, low_bit))

CastLow == \E tok \in 1 .. x.bits : CallArg("cast_low", <<tok>>, cast_low(x, tok))

Rshift == \E shift_amount \in 0 .. x.bits : CallArg("rshift", <<shift_amount>>, rshift(x, shift_amount))

Lshift == \E shift_amount \in 0 .. x.bits : CallArg("lshift", <<shift_amount>>, lshift(x, shift_amount))

\* The shift amount is the interval y
PreShift == Call("_pre_shift", pre_shift(x, y))

RshiftInterval == Call("rshift", rshift_interval(x, y))

LshiftInterval == Call("lshift", lshift_interval(x, y))

Concat == Call("concat", concat(x, y))

CompareSLT == Call("SLT", SLT(x, y))

CompareSGE == Call("SGE", SGE(x, y))

CompareULT == Call("ULT", ULT(x, y))

CompareULE == Call("ULE", ULE(x, y))

Psplit == Call("psplit", psplit(x))

\* The divisor is a constant: one piece, so at most four quotients to join
Udiv == is_integer(y) /\ \E result \in udiv(x, y) : Call("udiv", result)

Sdiv == is_integer(y) /\ \E result \in sdiv(x, y) : Call("sdiv", result)

\* The WarrenMethods are called on the bounds of two intervals that do not wrap
no_wrap == ~x.bottom /\ ~y.bottom /\ x.lb <= x.ub /\ y.lb <= y.ub

MinOr == no_wrap /\ Call("min_or", min_or(x.lb, x.ub, y.lb, y.ub, x.bits))

MaxOr == no_wrap /\ Call("max_or", max_or(x.lb, x.ub, y.lb, y.ub, x.bits))

MinAnd == no_wrap /\ Call("min_and", min_and(x.lb, x.ub, y.lb, y.ub, x.bits))

MaxAnd == no_wrap /\ Call("max_and", max_and(x.lb, x.ub, y.lb, y.ub, x.bits))

MinXor == no_wrap /\ Call("min_xor", min_xor(x.lb, x.ub, y.lb, y.ub, x.bits))

MaxXor == no_wrap /\ Call("max_xor", max_xor(x.lb, x.ub, y.lb, y.ub, x.bits))

\* widen returns self or b itself when the other operand is empty, and
\* ret.normalize() then acts on that operand in place
Widen ==
    /\ op = "init"
    /\ op' = "widen"
    /\ arg' = <<>>
    /\ ret' = widen(x, y)
    /\ x' = IF ~is_empty(x) /\ is_empty(y) THEN normalize(x) ELSE x
    /\ y' = IF is_empty(x) /\ is_empty(y) THEN normalize(y) ELSE y

\* x = x.union(y), x = x.widen(y): x is bound to the interval the call returned
Assign ==
    /\ op \in {"union", "widen"}
    /\ ~Raised(ret)
    /\ x' = ret
    /\ op' = "init"
    /\ arg' = <<>>
    /\ ret' = None
    /\ UNCHANGED y

Return ==
    /\ op # "init"
    /\ op' = "init"
    /\ arg' = <<>>
    /\ ret' = None
    /\ UNCHANGED <<x, y>>

\* The methods that take the two operands and return an interval, and the unary
\* methods without a choice of argument; the other families have their own
\* next-state relations below
Next ==
    \/ Union
    \/ Intersection
    \/ WrappedLte
    \/ Complement
    \/ Add
    \/ Sub
    \/ Mul
    \/ Neg
    \/ BitwiseNot
    \/ BitwiseOr
    \/ BitwiseAnd
    \/ BitwiseXor
    \/ ZeroExtend
    \/ Concat
    \/ Udiv
    \/ Sdiv
    \/ Return

Spec == Init /\ [][Next]_vars

(***************************************************************************)
(* Operands that carry the uninitialized flag                              *)
(***************************************************************************)

\* Width of the operands that carry the flag
UninitBits == 2

\* StridedInterval(bits=, stride=, lower_bound=, upper_bound=, uninitialized=)
UniverseUninit(bits) ==
    { StridedIntervalU(si.bits, si.stride, si.lb, si.ub, u, FALSE) :
        <<si, u>> \in Universe(bits) \X BOOLEAN }

InitUninit ==
    /\ x \in UniverseUninit(UninitBits)
    /\ y \in UniverseUninit(UninitBits)
    /\ op = "init"
    /\ arg = <<>>
    /\ ret = None

\* The binary operations
NextUninit ==
    \/ Union
    \/ Add
    \/ Sub
    \/ Mul
    \/ BitwiseOr
    \/ BitwiseAnd
    \/ Return

SpecUninit == InitUninit /\ [][NextUninit]_vars

(***************************************************************************)
(* Byte-wide operands: short progressions lb, lb + stride, ... near zero   *)
(***************************************************************************)

\* The width of a byte
ByteBits == 8

\* Largest lower bound of a byte-wide operand
MaxByteLb == 5

\* Largest stride of a byte-wide operand
MaxByteStride == 2

\* Largest number of steps from the lower to the upper bound
MaxByteSteps == 4

UniverseByte ==
    { StridedInterval(ByteBits, s, l, l + n * s) :
        <<s, l, n>> \in (0 .. MaxByteStride) \X (0 .. MaxByteLb) \X (0 .. MaxByteSteps) }

InitByte ==
    /\ x \in UniverseByte
    /\ y \in UniverseByte
    /\ op = "init"
    /\ arg = <<>>
    /\ ret = None

SpecByte == InitByte /\ [][Next]_vars

(***************************************************************************)
(* One operand: every interval of a wider width, with a small constant as  *)
(* the second operand                                                      *)
(***************************************************************************)

\* Width of the operand
UnaryBits == 4

\* Largest constant drawn as the second operand
MaxConstant == 1

InitUnary ==
    /\ x \in Universe(UnaryBits) \cup {empty(UnaryBits)}
    /\ y \in { StridedInterval(UnaryBits, 0, v, v) : v \in 0 .. MaxConstant }
    /\ op = "init"
    /\ arg = <<>>
    /\ ret = None

\* The operations on x alone, and those the claims call with a constant
NextUnary ==
    \/ Complement
    \/ Neg
    \/ BitwiseNot
    \/ ZeroExtend
    \/ SignExtend
    \/ Extract
    \/ CastLow
    \/ Rshift
    \/ Lshift
    \/ Psplit
    \/ Udiv
    \/ Sdiv
    \/ Return

SpecUnary == InitUnary /\ [][NextUnary]_vars

(***************************************************************************)
(* The comparisons alone, on every pair of operands of width Bits          *)
(***************************************************************************)
NextCompare ==
    \/ CompareSLT
    \/ CompareSGE
    \/ CompareULT
    \/ CompareULE
    \/ Return

SpecCompare == Init /\ [][NextCompare]_vars

(***************************************************************************)
(* Widening: the operands are objects, and x = x.op(y) binds x to the      *)
(* result of a call                                                        *)
(***************************************************************************)
NextWiden ==
    \/ Union
    \/ Widen
    \/ Assign
    \/ Return

SpecWiden == Init /\ [][NextWiden]_vars

\* The loop  while True: x = x.widen(y)
NextWidenLoop ==
    \/ Widen
    \/ Assign

\* The loop starts from a constant and widens by any interval of width Bits
InitWidenLoop ==
    /\ x \in { StridedInterval(Bits, 0, v, v) : v \in 0 .. MaxConstant }
    /\ y \in Universe(Bits)
    /\ op = "init"
    /\ arg = <<>>
    /\ ret = None

\* The loop never stops by itself: it always takes its next step
SpecWidenLoop == InitWidenLoop /\ [][NextWidenLoop]_vars /\ WF_vars(NextWidenLoop)

(***************************************************************************)
(* The shifts by an interval, on every pair of operands of width Bits      *)
(***************************************************************************)
NextShift ==
    \/ PreShift
    \/ RshiftInterval
    \/ LshiftInterval
    \/ Return

SpecShift == Init /\ [][NextShift]_vars

(***************************************************************************)
(* The WarrenMethods alone, on every pair of ranges a <= b, c <= d of      *)
(* width WarrenBits                                                        *)
(***************************************************************************)
WarrenBits == 3

Ranges(bits) ==
    { StridedInterval(bits, 1, r[1], r[2]) :
        r \in { r \in (0 .. 2 ^ bits - 1) \X (0 .. 2 ^ bits - 1) : r[1] <= r[2] } }

InitWarren ==
    /\ x \in Ranges(WarrenBits)
    /\ y \in Ranges(WarrenBits)
    /\ op = "init"
    /\ arg = <<>>
    /\ ret = None

NextWarren ==
    \/ MinOr
    \/ MaxOr
    \/ MinAnd
    \/ MaxAnd
    \/ MinXor
    \/ MaxXor
    \/ Return

SpecWarren == InitWarren /\ [][NextWarren]_vars

(***************************************************************************)
(* Properties                                                              *)
(***************************************************************************)

\* The set of integers a strided interval stands for: nothing for bottom, {lb}
\* for stride 0, otherwise lb, lb + stride, ... walked from lb to ub modulo 2^bits
concretize(si) ==
    IF si.bottom THEN {}
    ELSE IF si.stride = 0 THEN {si.lb}
    ELSE { modular_add(si.lb, k * si.stride, si.bits) :
             k \in 0 .. (modular_sub(si.ub, si.lb, si.bits) \div si.stride) }

\* The strided intervals the call of this state returned
Results ==
    IF op = "intersection" THEN ret
    ELSE IF op \in {"union", "complement", "add", "sub", "mul", "neg", "bitwise_not",
                    "bitwise_or", "bitwise_and", "zero_extend"} /\ ~Raised(ret)
    THEN {ret}
    ELSE {}

\* C1: join soundness in the poset.  For non-bottom, non-reversed x and y of
\* equal width, with u = x.union(y), both x._wrapped_lte(u) and
\* y._wrapped_lte(u) are true.
C1_JoinSoundPoset ==
    (op = "union" /\ ~x.bottom /\ ~y.bottom /\ ~x.reversed /\ ~y.reversed)
        => (wrapped_lte(x, ret) /\ wrapped_lte(y, ret))

\* C2: join soundness on concrete values.  For non-bottom x and y of equal
\* width that satisfy the datum invariants, every integer of concretize(x) and
\* of concretize(y) is in concretize(x.union(y)).
C2_JoinSoundConcrete ==
    (op = "union" /\ ~x.bottom /\ ~y.bottom)
        => ((concretize(x) \cup concretize(y)) \subseteq concretize(ret))

\* C3: stride discipline.  Every non-bottom strided interval returned by an
\* operation on operands that satisfy the discipline has
\* ((ub - lb) mod 2^w) mod stride = 0 whenever stride > 0.
C3_StrideDiscipline ==
    \A r \in Results :
        (~r.bottom /\ r.stride > 0) => (modular_sub(r.ub, r.lb, r.bits) % r.stride = 0)

\* C4: singleton canonical form.  In every non-bottom strided interval
\* returned by an operation, union included, stride = 0 if and only if lb = ub.
C4_SingletonCanonical ==
    \A r \in Results : ~r.bottom => ((r.stride = 0) <=> (r.lb = r.ub))

\* C5: TOP canonical form.  No non-bottom strided interval returned by an
\* operation has stride = 1 and lb = (ub + 1) mod 2^w unless lb = 0 and
\* ub = 2^w - 1.
C5_TopCanonical ==
    \A r \in Results :
        (~r.bottom /\ r.stride = 1 /\ r.lb = modular_add(r.ub, 1, r.bits))
            => (r.lb = 0 /\ r.ub = max_int(r.bits))

\* C6: meet soundness in the poset.  For non-bottom x and y of equal width,
\* every m in the set x.intersection(y) satisfies m._wrapped_lte(x) and
\* m._wrapped_lte(y).
C6_MeetSoundPoset ==
    (op = "intersection" /\ ~x.bottom /\ ~y.bottom)
        => \A m \in ret : wrapped_lte(m, x) /\ wrapped_lte(m, y)

\* C7: zero_extend is exact.  For every non-bottom, non-reversed x, wrapping
\* or not, and every wider new width, concretize(x.zero_extend(w')) equals
\* concretize(x).
C7_ZeroExtendExact ==
    (op = "zero_extend" /\ ~x.bottom /\ ~x.reversed)
        => (concretize(ret) = concretize(x))

\* C8: the bottom/top rule of the poset comparison.  empty(w)._wrapped_lte(b)
\* is true for every b, and top(w)._wrapped_lte(b) is true only when b is TOP;
\* in particular it is false when b is the empty interval.
C8_BottomTopRule ==
    (op = "wrapped_lte")
        => /\ (x = empty(x.bits)) => (ret = TRUE)
           /\ (x = top(x.bits) /\ ret = TRUE) => (y = top(y.bits))

\* C9: uninit propagates as the OR of the inputs.  For add, sub, mul,
\* bitwise_and, bitwise_or and union on x and y, the uninitialized flag of the
\* result is x.uninitialized OR y.uninitialized, also when add or sub detect
\* overflow and return TOP.
C9_UninitIsOr ==
    (op \in {"add", "sub", "mul", "bitwise_and", "bitwise_or", "union"} /\ ~Raised(ret))
        => (ret.uninit = (x.uninit \/ y.uninit))

\* The operand of scenario S1: <8>2[0x02,0x0a], the set {2, 4, 6, 8, 10}
S1 == StridedInterval(ByteBits, 2, 2, 10)

\* C10 as stated: for x = <8>2[0x02,0x0a], x.add(x) returns the strided
\* interval of width 8 with stride 4, lower bound 0x04 and upper bound 0x14.
C10_AddItselfStride4 ==
    (op = "add" /\ x = S1 /\ y = S1)
        => (~ret.bottom /\ ret.bits = 8 /\ ret.stride = 4 /\ ret.lb = 4 /\ ret.ub = 20)

\* C10, amended: for x = <8>2[0x02,0x0a], x.add(x) returns the strided
\* interval of width 8 with stride 2 (the gcd of the operands' strides), lower
\* bound 0x04 and upper bound 0x14.
C10_AddItselfStride2 ==
    (op = "add" /\ x = S1 /\ y = S1)
        => (~ret.bottom /\ ret.bits = 8 /\ ret.stride = 2 /\ ret.lb = 4 /\ ret.ub = 20)

\* x.add(x) has returned for the operand of scenario S1, without overflow
C10_Witness ==
    /\ op = "add"
    /\ x = S1
    /\ y = S1
    /\ ~wrappedoverflow_add(x, y)
    /\ ret = StridedInterval(ByteBits, 2, 4, 20)

\* The operands of scenario S2: the singletons <8>0[0x03,0x03] and <8>0[0x05,0x05]
S2a == StridedInterval(ByteBits, 0, 3, 3)

S2b == StridedInterval(ByteBits, 0, 5, 5)

\* C11 as stated: for a = <8>0[0x03,0x03] and b = <8>0[0x05,0x05],
\* a.bitwise_or(b) returns the strided interval of width 8 with stride 1, lower
\* bound 0x07 and upper bound 0x07.
C11_OrSingletonsStride1 ==
    (op = "bitwise_or" /\ x = S2a /\ y = S2b)
        => (~ret.bottom /\ ret.bits = 8 /\ ret.stride = 1 /\ ret.lb = 7 /\ ret.ub = 7)

\* C11, amended: for a = <8>0[0x03,0x03] and b = <8>0[0x05,0x05],
\* a.bitwise_or(b) returns the singleton of width 8 with stride 0, lower bound
\* 0x07 and upper bound 0x07.
C11_OrSingletonsStride0 ==
    (op = "bitwise_or" /\ x = S2a /\ y = S2b)
        => (~ret.bottom /\ ret.bits = 8 /\ ret.stride = 0 /\ ret.lb = 7 /\ ret.ub = 7)

\* a.bitwise_or(b) has returned the singleton 7 for the operands of scenario S2
C11_Witness ==
    /\ op = "bitwise_or"
    /\ x = S2a
    /\ y = S2b
    /\ is_integer(ret)
    /\ concretize(ret) = {7}

same_interval(a, b) ==
    /\ a.bits = b.bits
    /\ a.stride = b.stride
    /\ a.lb = b.lb
    /\ a.ub = b.ub
    /\ a.bottom = b.bottom

\* C13: double complement is the identity on the extreme elements.  For x
\* equal to TOP, to the empty interval or to a singleton,
\* x.complement.complement has the bits, stride, bounds and bottom flag of x;
\* and the complement of the wrapping <4>1[0xE,0x2] is <4>1[0x3,0xD].
C13_DoubleComplement ==
    (op = "complement")
        => /\ (x = top(x.bits) \/ x = empty(x.bits) \/ (~x.bottom /\ is_integer(x)))
                => same_interval(complement(ret), x)
           /\ (x = StridedInterval(4, 1, 14, 2))
                => same_interval(ret, StridedInterval(4, 1, 3, 13))

\* x.complement has returned the wrapping interval around a singleton x, whose
\* complement is x again
C13_Witness ==
    /\ op = "complement"
    /\ ~x.bottom
    /\ is_integer(x)
    /\ ret.stride = 1
    /\ ret.lb = modular_add(x.ub, 1, x.bits)
    /\ ret.ub = modular_sub(x.lb, 1, x.bits)
    /\ same_interval(complement(ret), x)

\* C14: splitting and re-joining bits over-approximates.  For every
\* non-bottom, non-reversed x of width w and every k with 0 < k < w,
\* x._wrapped_lte(x.extract(w-1, k).concat(x.extract(k-1, 0))) is true.
C14_SplitJoinCovers ==
    (op = "extract" /\ ~x.bottom /\ ~x.reversed /\ arg[1] = x.bits - 1 /\ arg[2] > 0)
        => wrapped_lte(x, concat(ret, extract(x, arg[2] - 1, 0)))

\* The sign bit of every concrete value of si is the same
one_sign(si) ==
    \/ \A v \in concretize(si) : v < 2 ^ (si.bits - 1)
    \/ \A v \in concretize(si) : v >= 2 ^ (si.bits - 1)

negate(b) ==
    IF b = TrueResult THEN FalseResult
    ELSE IF b = FalseResult THEN TrueResult
    ELSE MaybeResult

\* C16: whenever x.ULT(y) is True, x.ULE(y) is True as well, and x.SLT(y) is
\* the three-valued negation of x.SGE(y).
C16_ComparisonDuality ==
    /\ (op = "ULT" /\ ret = TrueResult) => ULE(x, y) = TrueResult
    /\ op = "SLT" => ret = negate(SGE(x, y))

is_zero(si) == ~si.bottom /\ si.lb = 0 /\ si.ub = 0

\* C17: udiv and sdiv by the singleton zero raise nothing and return the empty
\* interval, however many pieces the dividend splits into.
C17_DivByZeroIsEmpty ==
    (op \in {"udiv", "sdiv"} /\ is_zero(y)) =>
        (~Raised(ret) /\ ret.bottom /\ ret.bits = x.bits)

C17_Witness ==
    /\ op = "udiv"
    /\ is_zero(y)
    /\ Len(ssplit(x)) = 2
    /\ Len(psplit(x)) = 3
    /\ ~Raised(ret)
    /\ ret.bottom

\* The operands of scenario S7
S7a == StridedInterval(ByteBits, 1, 0, 127)

S7b == StridedInterval(ByteBits, 1, 128, 255)

\* C18: when x.ULT(y) is True every integer of x is below every integer of y,
\* when it is False every integer of x is at least every integer of y; the
\* lower half of the bytes is ULT the upper half.
C18_ULTSound ==
    /\ (op = "ULT" /\ ret = TrueResult) =>
           \A a \in concretize(x), b \in concretize(y) : a < b
    /\ (op = "ULT" /\ ret = FalseResult) =>
           \A a \in concretize(x), b \in concretize(y) : a >= b
    /\ ULT(S7a, S7b) = TrueResult

C18_Witness ==
    /\ op = "ULT"
    /\ ret = TrueResult
    /\ Cardinality(concretize(x)) > 1
    /\ Cardinality(concretize(y)) > 1
    /\ x.lb > x.ub

\* The values x | y and x & y over all x in [a, b] and y in [c, d]
all_or == { bit_or(p, q) : p \in x.lb .. x.ub, q \in y.lb .. y.ub }

all_and == { bit_and(p, q, x.bits) : p \in x.lb .. x.ub, q \in y.lb .. y.ub }

\* C19: for a <= b and c <= d, min_or(a, b, c, d, w) is the minimum and
\* max_or(a, b, c, d, w) the maximum of x | y over x in [a, b], y in [c, d].
C19_WarrenOrExact ==
    /\ op = "min_or" => ret = set_min(all_or)
    /\ op = "max_or" => ret = set_max(all_or)

C19_Witness ==
    /\ op = "min_or"
    /\ ret = set_min(all_or)
    /\ ret # bit_or(x.lb, y.lb)

\* C20: for a <= b and c <= d, min_and(a, b, c, d, w) is the minimum and
\* max_and(a, b, c, d, w) the maximum of x & y over x in [a, b], y in [c, d].
C20_WarrenAndExact ==
    /\ op = "min_and" => ret = set_min(all_and)
    /\ op = "max_and" => ret = set_max(all_and)

C20_Witness ==
    /\ op = "max_and"
    /\ ret = set_max(all_and)
    /\ ret # bit_and(x.ub, y.ub, x.bits)

all_xor == { bit_xor(p, q) : p \in x.lb .. x.ub, q \in y.lb .. y.ub }

\* C21: for a <= b and c <= d, min_xor(a, b, c, d, w) is the minimum and
\* max_xor(a, b, c, d, w) the maximum of x ^ y over x in [a, b], y in [c, d].
C21_WarrenXorExact ==
    /\ op = "min_xor" => ret = set_min(all_xor)
    /\ op = "max_xor" => ret = set_max(all_xor)

\* a and c were both adjusted in the scan: leaving at the first adjustment gives
\* another value
C21_Witness ==
    /\ op = "min_xor"
    /\ ret = set_min(all_xor)
    /\ ret # min_xor_break(x.lb, x.ub, y.lb, y.ub, x.bits)

\* The join of the per-piece intervals [min_xor, max_xor] of stride 1
xor_pieces_lub(s, t) ==
    LET uv == pairs(ssplit(s), ssplit(t))
        result_interval ==
            [k \in 1 .. Len(uv) |->
                LET u == uv[k][1]
                    v == uv[k][2]
                IN  StridedInterval(u.bits, 1,
                                    min_xor(u.lb, u.ub, v.lb, v.ub, u.bits),
                                    max_xor(u.lb, u.ub, v.lb, v.ub, u.bits))]
    IN  normalize(least_upper_bound(result_interval))

\* C22: for non-bottom x and y of equal width, x.bitwise_xor(y) raises nothing
\* and returns the join of the per-piece intervals [min_xor, max_xor] of
\* stride 1.
C22_XorCompletes ==
    (op = "bitwise_xor" /\ ~x.bottom /\ ~y.bottom) =>
        (~Raised(ret) /\ ret = xor_pieces_lub(x, y))

\* C23: for non-bottom x and t < x.bits with x.stride >= 2^t, x.cast_low(t) is
\* the singleton {lb & (2^t - 1)} when lb fits in t bits and the empty interval
\* of width t otherwise.
C23_CastLowBelowStride ==
    (op = "cast_low" /\ ~x.bottom /\ arg[1] < x.bits /\ x.stride >= 2 ^ arg[1]) =>
        IF mask_bits(x.lb, arg[1]) = x.lb
        THEN ret = StridedInterval(arg[1], 0, x.lb, x.lb)
        ELSE ~Raised(ret) /\ ret.bottom /\ ret.bits = arg[1]

\* C24: for non-bottom, non-reversed x, wrapping or not, and t <= x.bits, every
\* v of x has v mod 2^t in x.cast_low(t).
C24_CastLowSound ==
    (op = "cast_low" /\ ~x.bottom /\ ~x.reversed) =>
        (~Raised(ret) /\ \A v \in concretize(x) : (v % (2 ^ arg[1])) \in concretize(ret))

\* C25: for non-bottom x, x._psplit() has between 1 and 4 pieces, and no piece
\* straddles the south pole (ub < lb) or the north pole (lb <= 2^(w-1) - 1 and
\* ub >= 2^(w-1)).
C25_PsplitSafe ==
    (op = "psplit" /\ ~x.bottom) =>
        /\ Len(ret) \in 1 .. 4
        /\ \A k \in 1 .. Len(ret) :
               /\ ~(ret[k].ub < ret[k].lb)
               /\ ~(ret[k].lb <= 2 ^ (x.bits - 1) - 1 /\ ret[k].ub >= 2 ^ (x.bits - 1))

\* The set intersection returns for the singleton {v} and the interval t
singleton_meet(v, t) ==
    IF v \in concretize(t) THEN {StridedInterval(t.bits, 0, v, v)} ELSE {empty(t.bits)}

\* C26: for a singleton {v} and a non-bottom, non-singleton t of the same width,
\* wrapping or not and whatever its stride, intersection returns {{v}} when v
\* is a value of t and {empty} otherwise, in either argument order.
C26_SingletonIntersection ==
    /\ (op = "intersection" /\ ~x.bottom /\ ~y.bottom /\ is_integer(x) /\ ~is_integer(y)) =>
           ret = singleton_meet(x.lb, y)
    /\ (op = "intersection" /\ ~x.bottom /\ ~y.bottom /\ ~is_integer(x) /\ is_integer(y)) =>
           ret = singleton_meet(y.lb, x)

\* C27: when lshift or rshift is called on x with a non-singleton interval k as
\* shift amount, the range of shift counts is [clamp(k.lb), clamp(k.ub)], where
\* clamp maps values outside [0, x.bits] to x.bits, whatever the bounds of x.
C27_ShiftRangeFromAmount ==
    /\ (op = "_pre_shift" /\ ~x.bottom /\ ~y.bottom /\ ~is_integer(y)) =>
           ret = <<round(x.bits, y.lb), round(x.bits, y.ub)>>
    /\ (op = "rshift" /\ arg = <<>> /\ ~x.bottom /\ ~y.bottom /\ ~is_integer(y)) =>
           ret = rshift_range(x, round(x.bits, y.lb), round(x.bits, y.ub))
    /\ (op = "lshift" /\ arg = <<>> /\ ~x.bottom /\ ~y.bottom /\ ~is_integer(y)) =>
           ret = lshift_range(x, round(x.bits, y.lb), round(x.bits, y.ub))

\* C28: a call leaves the fields (bits, stride, lb, ub, reversed, uninit,
\* bottom) of its receiver and of its argument as they were before the call,
\* whatever calls came before it.
C28_OperandsNotMutated ==
    [][(op' \in {"union", "widen"}) => (x' = x /\ y' = y)]_vars

\* C29: for non-bottom x and y of equal width whose strides are not both 0, every
\* value of x and every value of y is a value of x.widen(y).
C29_WidenCovers ==
    (op = "widen" /\ ~x.bottom /\ ~y.bottom /\ ~(x.stride = 0 /\ y.stride = 0)) =>
        /\ ~Raised(ret)
        /\ concretize(x) \subseteq concretize(ret)
        /\ concretize(y) \subseteq concretize(ret)

\* x.widen(y) has the bits, stride, lb and ub of x
widen_is_fixed ==
    LET r == widen(x, y)
    IN  ~Raised(r) /\ r.bits = x.bits /\ r.stride = x.stride /\ r.lb = x.lb /\ r.ub = x.ub

\* C30: for non-bottom x and y of equal width, the sequence x0 = x,
\* x(n+1) = x(n).widen(y) reaches an x(n+1) identical to x(n) and stays there:
\* it never cycles among distinct values.
C30_WidenReachesFixedPoint ==
    <>[]widen_is_fixed

====
